---- MODULE Spec2Model ----
(***************************************************************************)
(* The CSS selector builder of src/src/05-objects-tasks.js: the class      *)
(* CssSelectorBuilder and the facade cssSelectorBuilder.                   *)
(*                                                                         *)
(* Builders are objects on a heap, named by their address (the index in    *)
(* `heap`).  JavaScript strings are TLA+ strings, arrays are sequences.    *)
(* An array element is modelled with its JavaScript shape, because the     *)
(* code pushes objects, numbers and strings into `selectors`.              *)
(***************************************************************************)
EXTENDS Integers, Sequences, FiniteSets, TLC

VARIABLES heap,    \* address -> builder object [selectors, avalableSelectors]
          calls,   \* history: address -> the fragment requests that returned
          origin,  \* history: address -> how the builder was created
          last     \* history: the call made last and how it ended

vars == <<heap, calls, origin, last>>

----------------------------------------------------------------------------
(* Bounds and inputs *)

MaxEntries == 3

Values == {"a", "b"}

Combinators == {" ", "+"}

Kinds == {"element", "id", "class", "attr", "pseudoClass", "pseudoElement"}

----------------------------------------------------------------------------
(* JavaScript values *)

Undefined == "undefined"

\* An object literal { type, value }.
Selector(type, value) == [js |-> "object", type |-> type, value |-> value, num |-> 0]

\* A number and a string held in an array where an object is expected.
NumberEntry(n) == [js |-> "number", type |-> Undefined, value |-> "", num |-> n]

StringEntry(s) == [js |-> "string", type |-> Undefined, value |-> s, num |-> 0]

\* ({ type }) => type : the property `type` of an array element.
TypeOf(e) == IF e.js = "object" THEN e.type ELSE Undefined

\* ({ value }) => value : a primitive has no property `value`.
ValueOf(e) == IF e.js = "object" THEN [def |-> TRUE, str |-> e.value]
              ELSE [def |-> FALSE, str |-> ""]

\* An array reference, or undefined.
Arr(s) == [def |-> TRUE, arr |-> s]

NoArr == [def |-> FALSE, arr |-> <<>>]

\* Array.prototype.includes
Includes(s, x) == \E i \in 1..Len(s) : s[i] = x

\* Array.prototype.find(({ type }) => type === k), as the truth value the code tests
FindType(s, k) == \E i \in 1..Len(s) : TypeOf(s[i]) = k

\* Join as string concatenation with +, which renders undefined as text.
RECURSIVE JoinPlus(_)
JoinPlus(s) == IF s = <<>> THEN ""
               ELSE (IF Head(s).def THEN Head(s).str ELSE "undefined") \o JoinPlus(Tail(s))

\* Array.prototype.join(''): undefined and null elements render as ''.
RECURSIVE Join(_)
Join(s) == IF s = <<>> THEN ""
           ELSE (IF Head(s).def THEN Head(s).str ELSE "") \o Join(Tail(s))

\* Array.prototype.map(({ value }) => value)
MapValue(s) == [i \in 1..Len(s) |-> ValueOf(s[i])]

\* String(obj) of a builder object, as `+` converts it.
ObjectToString == "[object Object]"

----------------------------------------------------------------------------
(* class CssSelectorBuilder *)

\* The map with every stage leaving out its own kind.
avalableSelectorsMapStrict(type) ==
  CASE type = "element" -> Arr(<<"id", "class", "attr", "pseudoClass", "pseudoElement">>)
    [] type = "id" -> Arr(<<"class", "attr", "pseudoClass", "pseudoElement">>)
    [] type = "class" -> Arr(<<"attr", "pseudoClass", "pseudoElement">>)
    [] type = "attr" -> Arr(<<"pseudoClass", "pseudoElement">>)
    [] type = "pseudoClass" -> Arr(<<"pseudoElement">>)
    [] type = "pseudoElement" -> Arr(<<>>)
    [] OTHER -> NoArr

avalableSelectorsMap(type) ==
  CASE type = "element" -> Arr(<<"element", "id", "class", "attr", "pseudoClass", "pseudoElement">>)
    [] type = "id" -> Arr(<<"id", "class", "attr", "pseudoClass", "pseudoElement">>)
    [] type = "class" -> Arr(<<"class", "attr", "pseudoClass", "pseudoElement">>)
    [] type = "attr" -> Arr(<<"attr", "pseudoClass", "pseudoElement">>)
    [] type = "pseudoClass" -> Arr(<<"pseudoClass", "pseudoElement">>)
    [] type = "pseudoElement" -> Arr(<<>>)
    [] OTHER -> NoArr

Constructor(selector) ==
  [selectors |-> <<selector>>,
   avalableSelectors |-> avalableSelectorsMap(TypeOf(selector))]

\* How a method call ends: it returns `this` (err = "none") or throws.
DuplicateError == "Element, id and pseudo-element should not occur more then one time inside the selector"

OrderError == "Selector parts should be arranged in the following order: element, id, class, attribute, pseudo-class, pseudo-element"

TypeError == "TypeError: Cannot read properties of undefined (reading 'includes')"

Return(b) == [err |-> "none", b |-> b]

Throw(b, e) == [err |-> e, b |-> b]

\* this.avalableSelectors.includes(k), which throws a TypeError on undefined
\* (then) or else yields a boolean.
IncludesThrows(b) == ~b.avalableSelectors.def

Avalable(b, k) == Includes(b.avalableSelectors.arr, k)

Push(b, e) == [b EXCEPT !.selectors = Append(@, e)]

\* The assignment made to a property of another spelling: the field keeps its value.
SetAvalableMisspelt(b, a) == b

SetAvalable(b, a) == [b EXCEPT !.avalableSelectors = a]

\* element without the test for an earlier element.
elementNoOccurCheck(b, value) ==
  IF IncludesThrows(b) THEN Throw(b, TypeError)
  ELSE IF ~Avalable(b, "element") THEN Throw(b, OrderError)
  ELSE Return(Push(b, Selector("element", value)))

element(b, value) ==
  IF FindType(b.selectors, "element") THEN Throw(b, DuplicateError)
  ELSE IF IncludesThrows(b) THEN Throw(b, TypeError)
  ELSE IF ~Avalable(b, "element") THEN Throw(b, OrderError)
  ELSE Return(Push(b, Selector("element", value)))

\* id without the test for an earlier id.
idNoOccurCheck(b, value) ==
  IF IncludesThrows(b) THEN Throw(b, TypeError)
  ELSE IF ~Avalable(b, "id") THEN Throw(b, OrderError)
  ELSE Return(Push(SetAvalable(b, avalableSelectorsMap("id")),
                   Selector("id", "#" \o value)))

id(b, value) ==
  IF FindType(b.selectors, "id") THEN Throw(b, DuplicateError)
  ELSE IF IncludesThrows(b) THEN Throw(b, TypeError)
  ELSE IF ~Avalable(b, "id") THEN Throw(b, OrderError)
  ELSE Return(Push(SetAvalable(b, avalableSelectorsMap("id")),
                   Selector("id", "#" \o value)))

\* class that leaves avalableSelectors as it is, as element does.
classNoAdvance(b, value) ==
  IF IncludesThrows(b) THEN Throw(b, TypeError)
  ELSE IF ~Avalable(b, "class") THEN Throw(b, OrderError)
  ELSE Return(Push(b, Selector("class", "." \o value)))

class(b, value) ==
  IF IncludesThrows(b) THEN Throw(b, TypeError)
  ELSE IF ~Avalable(b, "class") THEN Throw(b, OrderError)
  ELSE Return(Push(SetAvalable(b, avalableSelectorsMap("class")),
                   Selector("class", "." \o value)))

\* attr that pushes before it tests the order.
attrPushFirst(b, value) ==
  LET b1 == Push(b, Selector("attr", "[" \o value \o "]")) IN
  IF IncludesThrows(b1) THEN Throw(b1, TypeError)
  ELSE IF ~Avalable(b1, "attr") THEN Throw(b1, OrderError)
  ELSE Return(SetAvalable(b1, avalableSelectorsMap("attr")))

attr(b, value) ==
  IF IncludesThrows(b) THEN Throw(b, TypeError)
  ELSE IF ~Avalable(b, "attr") THEN Throw(b, OrderError)
  ELSE Return(Push(SetAvalable(b, avalableSelectorsMap("attr")),
                   Selector("attr", "[" \o value \o "]")))

\* pseudoClass that assigns the map entry of element.
pseudoClassWrongKey(b, value) ==
  IF IncludesThrows(b) THEN Throw(b, TypeError)
  ELSE IF ~Avalable(b, "pseudoClass") THEN Throw(b, OrderError)
  ELSE LET b1 == SetAvalable(b, avalableSelectorsMap("element"))
           b2 == Push(b1, Selector("pseudoClass", ":" \o value))
       IN Return(Push(b2, NumberEntry(Len(b2.selectors))))

\* this.selectors.push(this.selectors.push({...})): the inner push appends the
\* object and returns the new length, which the outer push appends.
pseudoClass(b, value) ==
  IF IncludesThrows(b) THEN Throw(b, TypeError)
  ELSE IF ~Avalable(b, "pseudoClass") THEN Throw(b, OrderError)
  ELSE LET b1 == SetAvalable(b, avalableSelectorsMap("pseudoClass"))
           b2 == Push(b1, Selector("pseudoClass", ":" \o value))
       IN Return(Push(b2, NumberEntry(Len(b2.selectors))))

\* pseudoElement that tests the order before the earlier occurrence.
pseudoElementOrderFirst(b, value) ==
  IF IncludesThrows(b) THEN Throw(b, TypeError)
  ELSE IF ~Avalable(b, "pseudoElement") THEN Throw(b, OrderError)
  ELSE IF FindType(b.selectors, "pseudoElement") THEN Throw(b, DuplicateError)
  ELSE Return(Push(SetAvalable(b, Arr(<<>>)),
                   Selector("pseudoElement", "::" \o value)))

\* pseudoElement that leaves avalableSelectors as it is.
pseudoElementKeepsStage(b, value) ==
  IF FindType(b.selectors, "pseudoElement") THEN Throw(b, DuplicateError)
  ELSE IF IncludesThrows(b) THEN Throw(b, TypeError)
  ELSE IF ~Avalable(b, "pseudoElement") THEN Throw(b, OrderError)
  ELSE Return(Push(b, Selector("pseudoElement", "::" \o value)))

pseudoElement(b, value) ==
  IF FindType(b.selectors, "pseudoElement") THEN Throw(b, DuplicateError)
  ELSE IF IncludesThrows(b) THEN Throw(b, TypeError)
  ELSE IF ~Avalable(b, "pseudoElement") THEN Throw(b, OrderError)
  ELSE Return(Push(SetAvalable(b, Arr(<<>>)),
                   Selector("pseudoElement", "::" \o value)))

\* The method combine(selector1, combinator, selector2), called with two
\* builders and a string: `+` converts the builders to strings.
combine(b, combinator) ==
  Return(Push(b, StringEntry(ObjectToString \o combinator \o ObjectToString)))

\* stringify that empties the array it has rendered.
stringifyConsuming(b) ==
  [ret |-> Join(MapValue(b.selectors)), b |-> [b EXCEPT !.selectors = <<>>]]

\* stringify(): the string returned and the builder as the call leaves it.
stringify(b) == [ret |-> Join(MapValue(b.selectors)), b |-> b]

\* The chained fragment methods by name.
Call(b, kind, value) ==
  CASE kind = "element" -> element(b, value)
    [] kind = "id" -> id(b, value)
    [] kind = "class" -> class(b, value)
    [] kind = "attr" -> attr(b, value)
    [] kind = "pseudoClass" -> pseudoClass(b, value)
    [] kind = "pseudoElement" -> pseudoElement(b, value)

----------------------------------------------------------------------------
(* const cssSelectorBuilder: the facade *)

\* The object literal each of the six factory methods passes to the constructor.
FactorySelector(kind, value) ==
  CASE kind = "element" -> Selector("element", value)
    [] kind = "id" -> Selector("id", "#" \o value)
    [] kind = "class" -> Selector("class", "." \o value)
    [] kind = "attr" -> Selector("attr", "[" \o value \o "]")
    [] kind = "pseudoClass" -> Selector("pseudoClass", ":" \o value)
    [] kind = "pseudoElement" -> Selector("pseudoElement", "::" \o value)

\* A facade that keeps the builders it made and hands out an equal one again.
NewCached(h, b) ==
  IF \E a \in DOMAIN h : h[a] = b
  THEN [heap |-> h, ret |-> CHOOSE a \in DOMAIN h : h[a] = b]
  ELSE [heap |-> Append(h, b), ret |-> Len(h) + 1]

\* new CssSelectorBuilder(...): the heap with the new object, and its address.
New(h, b) == [heap |-> Append(h, b), ret |-> Len(h) + 1]

\* combine that joins the three pieces as the method combine does, without spaces.
FactoryCombineNoSpaces(h, s1, combinator, s2) ==
  New(h, Constructor(Selector(Undefined,
        stringify(h[s1]).ret \o combinator \o stringify(h[s2]).ret)))

\* combine that appends the composite to selector1 and returns selector1.
FactoryCombineInPlace(h, s1, combinator, s2) ==
  [heap |-> [h EXCEPT ![s1] = Push(@, Selector(Undefined,
        stringify(h[s1]).ret \o " " \o combinator \o " " \o stringify(h[s2]).ret))],
   ret |-> s1]

\* cssSelectorBuilder.combine(selector1, combinator, selector2) on two builder
\* addresses: the object literal has a value and no type.
FactoryCombine(h, s1, combinator, s2) ==
  New(h, Constructor(Selector(Undefined,
        stringify(h[s1]).ret \o " " \o combinator \o " " \o stringify(h[s2]).ret)))

----------------------------------------------------------------------------
(* The state machine: a caller making calls on the facade and on builders *)

RECURSIVE Entries(_)
Entries(h) == IF h = <<>> THEN 0 ELSE Len(Head(h).selectors) + Entries(Tail(h))

Addr == DOMAIN heap

NoCall == [op |-> "none", this |-> 0, kind |-> "", err |-> "none", ret |-> ""]

Init ==
  /\ heap = <<>>
  /\ calls = <<>>
  /\ origin = <<>>
  /\ last = NoCall

\* cssSelectorBuilder.<kind>(value)
Factory ==
  \E kind \in Kinds, value \in Values :
    LET r == New(heap, Constructor(FactorySelector(kind, value))) IN
    /\ Entries(r.heap) <= MaxEntries
    /\ heap' = r.heap
    /\ calls' = (r.ret :> <<[kind |-> kind, value |-> value]>>) @@ calls
    /\ origin' = (r.ret :> [how |-> "fragment", left |-> 0, right |-> 0]) @@ origin
    /\ last' = [op |-> "factory", this |-> r.ret, kind |-> kind, err |-> "none", ret |-> ""]

\* builder.<kind>(value) that returns the builder
ChainAccepted ==
  \E a \in Addr, kind \in Kinds, value \in Values :
    LET r == Call(heap[a], kind, value) IN
    /\ r.err = "none"
    /\ Entries([heap EXCEPT ![a] = r.b]) <= MaxEntries
    /\ heap' = [heap EXCEPT ![a] = r.b]
    /\ calls' = [calls EXCEPT ![a] = Append(@, [kind |-> kind, value |-> value])]
    /\ origin' = origin
    /\ last' = [op |-> "chain", this |-> a, kind |-> kind, err |-> "none", ret |-> ""]

\* builder.<kind>(value) that throws
ChainThrows ==
  \E a \in Addr, kind \in Kinds, value \in Values :
    LET r == Call(heap[a], kind, value) IN
    /\ r.err # "none"
    /\ heap' = [heap EXCEPT ![a] = r.b]
    /\ UNCHANGED <<calls, origin>>
    /\ last' = [op |-> "chain", this |-> a, kind |-> kind, err |-> r.err, ret |-> ""]

\* cssSelectorBuilder.combine(s1, combinator, s2)
Combine ==
  \E s1 \in Addr, s2 \in Addr, combinator \in Combinators :
    LET r == FactoryCombine(heap, s1, combinator, s2) IN
    /\ Entries(r.heap) <= MaxEntries
    /\ heap' = r.heap
    /\ calls' = (r.ret :> <<>>) @@ calls
    /\ origin' = (r.ret :> [how |-> "combine", left |-> s1, right |-> s2]) @@ origin
    /\ last' = [op |-> "combine", this |-> r.ret, kind |-> combinator, err |-> "none", ret |-> ""]

\* builder.combine(s1, combinator, s2), the method
ChainCombine ==
  \E a \in Addr, combinator \in Combinators :
    LET r == combine(heap[a], combinator) IN
    /\ Entries([heap EXCEPT ![a] = r.b]) <= MaxEntries
    /\ heap' = [heap EXCEPT ![a] = r.b]
    /\ UNCHANGED <<calls, origin>>
    /\ last' = [op |-> "chainCombine", this |-> a, kind |-> combinator, err |-> "none", ret |-> ""]

\* builder.stringify()
Stringify ==
  \E a \in Addr :
    LET r == stringify(heap[a]) IN
    /\ heap' = [heap EXCEPT ![a] = r.b]
    /\ UNCHANGED <<calls, origin>>
    /\ last' = [op |-> "stringify", this |-> a, kind |-> "", err |-> "none", ret |-> r.ret]

Next == Factory \/ ChainAccepted \/ ChainThrows \/ Combine \/ ChainCombine \/ Stringify

Spec == Init /\ [][Next]_vars

----------------------------------------------------------------------------
(* The vocabulary of the properties *)

Singletons == {"element", "id", "pseudoElement"}

Repeatables == {"class", "attr", "pseudoClass"}

\* The position of a kind in the stage order.
StageOf(kind) ==
  CASE kind = "element" -> 1
    [] kind = "id" -> 2
    [] kind = "class" -> 3
    [] kind = "attr" -> 4
    [] kind = "pseudoClass" -> 5
    [] kind = "pseudoElement" -> 6

\* The text a fragment request stands for.
Rendered(kind, value) ==
  CASE kind = "element" -> value
    [] kind = "id" -> "#" \o value
    [] kind = "class" -> "." \o value
    [] kind = "attr" -> "[" \o value \o "]"
    [] kind = "pseudoClass" -> ":" \o value
    [] kind = "pseudoElement" -> "::" \o value

\* The texts of a sequence of fragment requests, concatenated in order.
RECURSIVE RenderedAll(_)
RenderedAll(log) ==
  IF log = <<>> THEN ""
  ELSE Rendered(Head(log).kind, Head(log).value) \o RenderedAll(Tail(log))

\* What stringify() returns on the builder at an address of a heap.
TextIn(h, a) == stringify(h[a]).ret

Text(a) == TextIn(heap, a)

\* The builder at an address came from one of the six fragment factories.
FromFragment(a) == origin[a].how = "fragment"

FromCombine(a) == origin[a].how = "combine"

\* A fragment request of the kind has returned on the builder (the seed included).
Holds(a, kind) == \E i \in 1..Len(calls[a]) : calls[a][i].kind = kind

LastKind(a) == calls[a][Len(calls[a])].kind

Req(kind, value) == [kind |-> kind, value |-> value]

----------------------------------------------------------------------------
(* C1: on every builder made by a fragment factory, stringify() returns the
   rendered texts of the seed and of every accepted call, concatenated in
   call order without separators; a stringify() call returns that string. *)
C1_StringifyConcatenates ==
  /\ \A a \in Addr : FromFragment(a) => Text(a) = RenderedAll(calls[a])
  /\ (last.op = "stringify" /\ FromFragment(last.this))
        => last.ret = RenderedAll(calls[last.this])

\* stringify() has returned "#a:b" for id('a').pseudoClass('b').
C1_Witness ==
  /\ last.op = "stringify"
  /\ calls[last.this] = <<Req("id", "a"), Req("pseudoClass", "b")>>
  /\ last.ret = "#a:b"

(* C2: on a builder that holds a fragment of a singleton kind, a chained call
   of that kind fails with the duplicate error, whatever the stage is. *)
C2_DuplicateSingletonFails ==
  /\ \A a \in Addr : \A kind \in Singletons : \A value \in Values :
       Holds(a, kind) => Call(heap[a], kind, value).err = DuplicateError
  /\ (last.op = "chain" /\ last.kind \in Singletons /\ last.err = "none")
        => \A i \in 1..(Len(calls[last.this]) - 1) : calls[last.this][i].kind # last.kind

\* id(...) has failed as a duplicate on a builder whose stage is past id.
C2_Witness ==
  /\ last.op = "chain"
  /\ last.kind = "id"
  /\ last.err = DuplicateError
  /\ Len(calls[last.this]) = 2
  /\ calls[last.this][1].kind = "id"
  /\ calls[last.this][2].kind = "class"

(* C3: on a builder made by a fragment factory, a chained call of a kind that
   lies before the kind of the last accepted fragment, and that is not a
   singleton the builder holds, fails with the order error. *)
C3_EarlierKindFails ==
  \A a \in Addr : \A kind \in Kinds : \A value \in Values :
    (/\ FromFragment(a)
     /\ StageOf(kind) < StageOf(LastKind(a))
     /\ ~(kind \in Singletons /\ Holds(a, kind)))
    => Call(heap[a], kind, value).err = OrderError

\* id(...) has failed with the order error after element(...).class(...).
C3_Witness ==
  /\ last.op = "chain"
  /\ last.kind = "id"
  /\ last.err = OrderError
  /\ Len(calls[last.this]) = 2
  /\ calls[last.this][1].kind = "element"
  /\ calls[last.this][2].kind = "class"

(* C4: a chained fragment call that fails with the duplicate or the order
   error leaves every builder as it was: the fragment sequence, the allowed
   kinds, what stringify() returns and how every later call ends. *)
C4_FailedCallChangesNothing ==
  [][(last'.op = "chain" /\ last'.err \in {DuplicateError, OrderError})
       => /\ heap' = heap
          /\ TextIn(heap', last'.this) = Text(last'.this)
          /\ \A kind \in Kinds : \A value \in Values :
               Call(heap'[last'.this], kind, value).err
                 = Call(heap[last'.this], kind, value).err]_vars

\* attr(...) has failed with the order error on a builder of two fragments.
C4_Witness ==
  /\ last.op = "chain"
  /\ last.kind = "attr"
  /\ last.err = OrderError
  /\ Len(heap[last.this].selectors) = 3
  /\ Text(last.this) = ":a"

(* C5: a chained fragment call that fails, on any builder, fails with the
   duplicate error or with the order error. *)
C5_OnlyTwoErrorKinds ==
  (last.op = "chain" /\ last.err # "none")
    => last.err \in {DuplicateError, OrderError}

(* C6: combine(left, c, right) returns a new builder whose stringify() is
   left.stringify() + ' ' + c + ' ' + right.stringify(), for operands of
   either origin. *)
C6_CombineJoinsWithSpaces ==
  [][last'.op = "combine"
       => /\ last'.this \notin Addr
          /\ TextIn(heap', last'.this) =
               Text(origin'[last'.this].left) \o " " \o last'.kind \o " "
                 \o Text(origin'[last'.this].right)]_vars

\* A combine result was combined with ' ': three spaces in a row.
C6_Witness ==
  /\ last.op = "combine"
  /\ last.kind = " "
  /\ FromCombine(origin[last.this].left)
  /\ Text(last.this) = "a + a   a"

(* C7: an accepted chained fragment call on an operand of an earlier combine
   changes the operand's own stringify() and leaves the stringify() of the
   builder that combine returned as it was. *)
C7_CombineCaptures ==
  [][\A r \in Addr :
       (/\ FromCombine(r)
        /\ last'.op = "chain"
        /\ last'.err = "none"
        /\ last'.this \in {origin[r].left, origin[r].right})
       => /\ TextIn(heap', r) = Text(r)
          /\ TextIn(heap', last'.this) # Text(last'.this)]_vars

\* class('b') was accepted on the operand of a combine made earlier.
C7_Witness ==
  /\ last.op = "chain"
  /\ last.err = "none"
  /\ \E r \in Addr :
       /\ FromCombine(r)
       /\ origin[r].left = last.this
       /\ Text(r) = "a + a"
       /\ Text(last.this) = "a.b"

(* C8: stringify() changes no builder, and called again on the same builder
   with no call in between it returns the same string. *)
C8_StringifyReadOnly ==
  [][last'.op = "stringify"
       => /\ heap' = heap
          /\ last'.ret = TextIn(heap, last'.this)
          /\ (last.op = "stringify" /\ last.this = last'.this)
               => last'.ret = last.ret]_vars

\* stringify() has returned on a builder of three array elements.
C8_Witness ==
  /\ last.op = "stringify"
  /\ Len(heap[last.this].selectors) = 3
  /\ last.ret = "a#b.a"

(* C9: on a builder whose last accepted fragment is of a repeatable kind, a
   further call of that kind is accepted and adds its rendered text at the
   end of what stringify() returns. *)
C9_RepeatableRepeats ==
  \A a \in Addr : \A value \in Values :
    (calls[a] # <<>> /\ LastKind(a) \in Repeatables)
    => LET r == Call(heap[a], LastKind(a), value) IN
       /\ r.err = "none"
       /\ stringify(r.b).ret = Text(a) \o Rendered(LastKind(a), value)

\* class('a').class('b').class('a') was accepted.
C9_Witness ==
  /\ last.op = "chain"
  /\ last.err = "none"
  /\ calls[last.this] = <<Req("class", "a"), Req("class", "b"), Req("class", "a")>>
  /\ Text(last.this) = ".a.b.a"

(* C10: the fragment sequence of every builder holds at most one fragment of
   kind element, one of kind id and one of kind pseudoElement. *)
C10_AtMostOneSingleton ==
  \A a \in Addr : \A kind \in Singletons :
    Cardinality({i \in 1..Len(heap[a].selectors) :
                   TypeOf(heap[a].selectors[i]) = kind}) <= 1

\* A builder holds an element, an id and a pseudoElement.
C10_Witness ==
  /\ last.op = "chain"
  /\ last.err = "none"
  /\ last.kind = "pseudoElement"
  /\ \A kind \in Singletons :
       \E i \in 1..Len(heap[last.this].selectors) :
         TypeOf(heap[last.this].selectors[i]) = kind

(* C11: builders share no state: a factory call returns a new builder and
   changes no builder there is, and a call on one builder, accepted or failed,
   changes the fragment sequence, the allowed kinds and the stringify() result
   of no other builder, builders of the same factory call and value included. *)
C11_NoSharedState ==
  [][/\ (last'.op \in {"factory", "combine"})
          => /\ last'.this \notin Addr
             /\ \A a \in Addr : heap'[a] = heap[a]
     /\ (last'.op \in {"chain", "chainCombine", "stringify"})
          => \A a \in Addr \ {last'.this} :
               /\ heap'[a] = heap[a]
               /\ TextIn(heap', a) = Text(a)]_vars

\* class('b') was accepted on one of two builders made by class('a').
C11_Witness ==
  /\ last.op = "chain"
  /\ last.err = "none"
  /\ last.this = 1
  /\ Len(heap) = 2
  /\ calls[1] = <<Req("class", "a"), Req("class", "b")>>
  /\ calls[2] = <<Req("class", "a")>>
  /\ Text(1) = ".a.b"
  /\ Text(2) = ".a"

(* C12: on a builder made by a fragment factory, a chained call of a kind that
   lies after the kind of the last accepted fragment is accepted, acts on the
   builder it was called on, and moves the stage to its kind: every earlier
   kind is rejected on the builder from then on. *)
C12_LaterKindAdvances ==
  /\ \A a \in Addr : \A kind \in Kinds : \A value \in Values :
       (FromFragment(a) /\ StageOf(kind) > StageOf(LastKind(a)))
       => LET r == Call(heap[a], kind, value) IN
          /\ r.err = "none"
          /\ \A earlier \in Kinds : \A v \in Values :
               StageOf(earlier) < StageOf(kind)
               => Call(r.b, earlier, v).err # "none"
  /\ \A a \in Addr : \A earlier \in Kinds : \A v \in Values :
       (FromFragment(a) /\ StageOf(earlier) < StageOf(LastKind(a)))
       => Call(heap[a], earlier, v).err # "none"
  /\ (last.op = "chain" /\ last.err = "none")
       => /\ last.this \in Addr
          /\ FindType(heap[last.this].selectors, last.kind)
          /\ FromFragment(last.this) => LastKind(last.this) = last.kind

\* attr('b') was accepted on element('a').
C12_Witness ==
  /\ last.op = "chain"
  /\ last.err = "none"
  /\ last.kind = "attr"
  /\ calls[last.this] = <<Req("element", "a"), Req("attr", "b")>>
  /\ Text(last.this) = "a[b]"
  /\ heap[last.this].avalableSelectors = avalableSelectorsMap("attr")

\* The kinds of the fragments an array holds, in array order.
RECURSIVE StagesOf(_)
StagesOf(s) ==
  IF s = <<>> THEN <<>>
  ELSE IF TypeOf(Head(s)) \in Kinds
       THEN <<StageOf(TypeOf(Head(s)))>> \o StagesOf(Tail(s))
       ELSE StagesOf(Tail(s))

NonDecreasing(q) == \A i \in 1..Len(q) : \A j \in 1..Len(q) : i < j => q[i] <= q[j]

AllowedIn(h, a) == {h[a].avalableSelectors.arr[i] : i \in 1..Len(h[a].avalableSelectors.arr)}

(* C13: on a builder made by a fragment factory the kinds of the stored
   fragments never decrease along the sequence, the allowed kinds after a call
   are among the allowed kinds before it, and no allowed kind lies before the
   kind of the last accepted fragment. *)
C13_StageMonotone ==
  [][/\ \A a \in Addr : FromFragment(a) => AllowedIn(heap', a) \subseteq AllowedIn(heap, a)
     /\ \A a \in DOMAIN heap' :
          origin'[a].how = "fragment"
          => /\ NonDecreasing(StagesOf(heap'[a].selectors))
             /\ \A kind \in AllowedIn(heap', a) :
                  StageOf(kind) >= StageOf(calls'[a][Len(calls'[a])].kind)]_vars

\* class('a') was accepted on element('a').id('b').
C13_Witness ==
  /\ last.op = "chain"
  /\ last.err = "none"
  /\ StagesOf(heap[last.this].selectors) = <<1, 2, 3>>
  /\ AllowedIn(heap, last.this) = {"class", "attr", "pseudoClass", "pseudoElement"}

\* An array element is the fragment of a request: its kind and its rendered text.
IsFragmentOf(e, req) ==
  /\ e.js = "object"
  /\ TypeOf(e) = req.kind
  /\ ValueOf(e) = [def |-> TRUE, str |-> Rendered(req.kind, req.value)]

(* C14: an accepted chained fragment call appends exactly one entry to the
   sequence of the builder, and the sequence of a builder made by a fragment
   factory holds one fragment per accepted call, in call order. *)
C14_OneFragmentPerCall ==
  [][(last'.op = "chain" /\ last'.err = "none")
       => LET t == last'.this IN
          /\ Len(heap'[t].selectors) = Len(heap[t].selectors) + 1
          /\ origin'[t].how = "fragment"
               => /\ Len(heap'[t].selectors) = Len(calls'[t])
                  /\ \A i \in 1..Len(heap'[t].selectors) :
                       i <= Len(calls'[t])
                       => IsFragmentOf(heap'[t].selectors[i], calls'[t][i])]_vars

(* C15: no combine call changes a builder there is: the factory combine
   leaves its operands as they are, and no combine called on a builder
   changes the sequence of that builder. *)
C15_CombineChangesNoBuilder ==
  [][(last'.op \in {"combine", "chainCombine"})
       => \A a \in Addr : heap'[a] = heap[a]]_vars

\* A fragment request of the kind has returned on the builder, in a given history.
HoldsIn(c, a, kind) == \E i \in 1..Len(c[a]) : c[a][i].kind = kind

(* C16: on a builder that holds a pseudoElement fragment every chained
   fragment call of every kind fails, and no call changes what stringify()
   returns on it. *)
C16_PseudoElementTerminal ==
  [][/\ \A a \in DOMAIN heap' :
          HoldsIn(calls', a, "pseudoElement")
          => \A kind \in Kinds : \A value \in Values :
               Call(heap'[a], kind, value).err # "none"
     /\ \A a \in Addr :
          Holds(a, "pseudoElement") => TextIn(heap', a) = Text(a)]_vars

\* class(...) has failed on id('a').pseudoElement('b').
C16_Witness ==
  /\ last.op = "chain"
  /\ last.kind = "class"
  /\ last.err = OrderError
  /\ calls[last.this] = <<Req("id", "a"), Req("pseudoElement", "b")>>
  /\ Text(last.this) = "#a::b"

(* C17: a chained element(...) never returns: it fails as a duplicate on a
   builder seeded by the element factory, and on every other builder it fails
   at the test of the allowed kinds, which do not include element; an element
   fragment is the first entry of its builder. *)
C17_ChainedElementNeverReturns ==
  /\ \A a \in Addr : \A value \in Values :
       LET r == Call(heap[a], "element", value) IN
       /\ r.err # "none"
       /\ r.b = heap[a]
       /\ (calls[a] # <<>> /\ calls[a][1].kind = "element") => r.err = DuplicateError
       /\ ~(calls[a] # <<>> /\ calls[a][1].kind = "element")
            => /\ r.err \in {OrderError, TypeError}
               /\ ~Avalable(heap[a], "element")
               /\ FromFragment(a) => r.err = OrderError
  /\ \A a \in Addr : \A i \in 1..Len(heap[a].selectors) :
       TypeOf(heap[a].selectors[i]) = "element" => i = 1
  /\ (last.op = "chain" /\ last.kind = "element") => last.err # "none"

\* element(...) has failed with the order error on class('a').attr('b').
C17_Witness ==
  /\ last.op = "chain"
  /\ last.kind = "element"
  /\ last.err = OrderError
  /\ calls[last.this] = <<Req("class", "a"), Req("attr", "b")>>

====
